---- MODULE Spec2Model ----
(***************************************************************************)
(* TA Rubrics front end: the API client (api.js), the CSV export of the    *)
(* results table, and the three routed pages (role list, role creation     *)
(* form, role details with its resume uploader), as a state machine.       *)
(*                                                                         *)
(* Text is a sequence of one-character strings, so that quoting, escaping  *)
(* and parsing are computed character by character.                        *)
(***************************************************************************)
EXTENDS Integers, Sequences, FiniteSets, Bags, TLC

VARIABLES
    \* ---- CSV export (ResultsTable.downloadCsv) ----
    csvResults,     \* the results prop of ResultsTable
    csvRows,        \* the data rows of csvContent, one text per Result
    csvPhase,       \* "idle" before the button is clicked, "done" after
    \* ---- one API client call (api.js) ----
    apiOp,          \* which of the five operations is called
    apiResp,        \* what fetch() answers
    apiResult,      \* how the operation settles
    \* ---- router ----
    route,          \* the current location
    \* ---- RoleList state ----
    roles, listLoading, listError,
    \* ---- RoleCreationForm state ----
    title, description, formLoading, formError,
    \* ---- RoleDetails state ----
    role, results, loading, error, isUploading,
    \* ---- ResumeUploader state ----
    file,
    \* ---- the network ----
    inflight        \* bag of the requests that have not settled yet

csvVars == <<csvResults, csvRows, csvPhase>>
apiVars == <<apiOp, apiResp, apiResult>>
listVars == <<roles, listLoading, listError>>
formVars == <<title, description, formLoading, formError>>
detailVars == <<role, results, loading, error, isUploading, file>>
appVars == <<route, listVars, formVars, detailVars, inflight>>
vars == <<csvVars, apiVars, appVars>>

(***************************************************************************)
(* Text helpers                                                            *)
(***************************************************************************)
\* A JavaScript value that may be undefined: <<>> is undefined, <<v>> is v.
None == <<>>
Some(v) == <<v>>
IsSome(o) == Len(o) > 0
Get(o) == o[1]

RECURSIVE Concat(_)
\* The texts of a sequence of texts, one after the other.
Concat(ss) ==
    IF ss = <<>> THEN <<>> ELSE Head(ss) \o Concat(Tail(ss))

RECURSIVE Join(_, _)
\* Array.prototype.join: the texts separated by sep.
Join(ss, sep) ==
    IF ss = <<>> THEN <<>>
    ELSE IF Len(ss) = 1 THEN ss[1]
    ELSE ss[1] \o sep \o Join(Tail(ss), sep)

DigitChars == <<"0", "1", "2", "3", "4", "5", "6", "7", "8", "9">>

RECURSIVE NumToStr(_)
\* String(n) for a non-negative integer: its decimal digits.
NumToStr(n) ==
    IF n < 10 THEN <<DigitChars[n + 1]>>
    ELSE NumToStr(n \div 10) \o <<DigitChars[(n % 10) + 1]>>

\* JSON.stringify's escape of one character of a string.
JsonEscapeChar(c) ==
    IF c = "\"" THEN <<"\\", "\"">>
    ELSE IF c = "\\" THEN <<"\\", "\\">>
    ELSE IF c = "\n" THEN <<"\\", "n">>
    ELSE <<c>>

\* JSON.stringify(s) for a string s: the escaped text between two quotes.
JsonStringify(s) ==
    <<"\"">> \o Concat([i \in 1..Len(s) |-> JsonEscapeChar(s[i])]) \o <<"\"">>

\* field.replace(/"/g, '""')
DoubleQuotes(s) ==
    Concat([i \in 1..Len(s) |-> IF s[i] = "\"" THEN <<"\"", "\"">> ELSE <<s[i]>>])

\* `"${String(field).replace(/"/g, '""')}"` for a field already stringified.
CsvQuote(s) == <<"\"">> \o DoubleQuotes(s) \o <<"\"">>

(***************************************************************************)
(* ResultsTable.downloadCsv                                                *)
(***************************************************************************)
SemiSpace == <<";", " ">>
ColonSpace == <<":", " ">>
NotAvailable == <<"N", "/", "A">>

\* const details = result.evaluation_details || {};
DetailsOf(result) ==
    IF IsSome(result.evaluation_details) THEN Get(result.evaluation_details)
    ELSE [pass_fail_status |-> None, justification |-> None,
          cited_evidence |-> None, competency_scores |-> None]

\* Object.entries(...).map(([key, value]) => `${key}: ${value}`).join('; '), or ''
CompetencyScoresText(details) ==
    IF IsSome(details.competency_scores)
    THEN LET entries == Get(details.competency_scores)
         IN  Join([i \in 1..Len(entries) |->
                     entries[i][1] \o ColonSpace \o NumToStr(entries[i][2])],
                  SemiSpace)
    ELSE <<>>

\* details.cited_evidence ? details.cited_evidence.join('; ') : ''
CitedEvidenceText(details) ==
    IF IsSome(details.cited_evidence)
    THEN Join(Get(details.cited_evidence), SemiSpace)
    ELSE <<>>

\* details.pass_fail_status || 'N/A': undefined and '' are both falsy.
PassFailText(details) ==
    IF IsSome(details.pass_fail_status) /\ Get(details.pass_fail_status) # <<>>
    THEN Get(details.pass_fail_status)
    ELSE NotAvailable

\* details.justification || ''
JustificationText(details) ==
    IF IsSome(details.justification) THEN Get(details.justification) ELSE <<>>

\* The six values of the array literal of one row, each as String(field) reads it.
RowFields(result) ==
    LET details == DetailsOf(result)
    IN  << result.file_name,
           NumToStr(result.score),
           PassFailText(details),
           JsonStringify(JustificationText(details)),
           JsonStringify(CitedEvidenceText(details)),
           JsonStringify(CompetencyScoresText(details)) >>

\* .map(field => `"${String(field).replace(/"/g, '""')}"`)
QuotedFields(result) ==
    LET fields == RowFields(result)
    IN  [i \in 1..Len(fields) |-> CsvQuote(fields[i])]

\* One data row: the quoted fields joined with ','.
CsvRow(result) == Join(QuotedFields(result), <<",">>)

(***************************************************************************)
(* api.js: the five fetch wrappers                                         *)
(***************************************************************************)
Ops == {"getRoles", "createRole", "getRoleDetails", "getRoleResults", "uploadResume"}

\* The literal after `errorData.detail ||` in each wrapper.
DefaultMessage(op) ==
    CASE op = "getRoles" -> "Failed to fetch roles"
      [] op = "createRole" -> "Failed to create role"
      [] op = "getRoleDetails" -> "Failed to fetch role details"
      [] op = "getRoleResults" -> "Failed to fetch role results"
      [] op = "uploadResume" -> "Failed to upload resume"

\* Messages the JavaScript engine and fetch() give; their wording is the
\* engine's, and none of them is one of the wrappers' literals.
NetworkErrorMessage == "Failed to fetch"
SyntaxErrorMessage == "Unexpected token < in JSON at position 0"
TypeErrorMessage == "Cannot read properties of null (reading 'detail')"

\* The detail strings the backend is taken to send ("" is a falsy detail).
Details == {"", "title required"}

\* A response body: text that is no JSON, the JSON null, or a JSON object,
\* which as an error body may carry a detail.
Bodies ==
    {[json |-> "invalid", detail |-> None], [json |-> "null", detail |-> None],
     [json |-> "object", detail |-> None]}
    \cup {[json |-> "object", detail |-> Some(d)] : d \in Details}

Statuses == {200, 400, 500}

\* What `await fetch(...)` gives: a rejection (net = FALSE) or a response.
Responses ==
    {[net |-> FALSE, status |-> 200, body |-> [json |-> "invalid", detail |-> None]]}
    \cup {[net |-> TRUE, status |-> st, body |-> b] : st \in Statuses, b \in Bodies}

\* response.ok
ResponseOk(resp) == resp.status \in 200..299

\* The wrapper with the server's detail dropped: every failure reads as the
\* operation's default message.
DetailOrDefaultDropsDetail(body, op) == DefaultMessage(op)

\* errorData.detail || '<default>'
DetailOrDefault(body, op) ==
    IF IsSome(body.detail) /\ Get(body.detail) # "" THEN Get(body.detail)
    ELSE DefaultMessage(op)

Threw(msg) == [thrown |-> TRUE, message |-> msg, data |-> "none"]
Returned(d) == [thrown |-> FALSE, message |-> "", data |-> d]

\* No call made, and a call whose fetch() has not answered yet.
NotCalled == [thrown |-> FALSE, message |-> "", data |-> "idle"]
Awaiting == [thrown |-> FALSE, message |-> "", data |-> "pending"]

\* How one wrapper settles on a response: the try block, whose catch logs
\* and rethrows the same error.
ApiCall(op, resp) ==
    IF ~resp.net THEN Threw(NetworkErrorMessage)
    ELSE IF ~ResponseOk(resp)
    THEN \* const errorData = await response.json(); throw new Error(...)
         IF resp.body.json = "invalid" THEN Threw(SyntaxErrorMessage)
         ELSE IF resp.body.json = "null" THEN Threw(TypeErrorMessage)
         ELSE Threw(DetailOrDefault(resp.body, op))
    ELSE \* return response.json()
         IF resp.body.json = "invalid" THEN Threw(SyntaxErrorMessage)
         ELSE Returned(resp.body.json)

(***************************************************************************)
(* App.jsx: the router, and the state each page holds while mounted        *)
(***************************************************************************)
RoleIds == {"A", "B"}
NoId == "-"
Files == {"cv.pdf"}
Texts == {"", "QA"}
NoError == "null"
NoFile == "null"

\* At most this many requests are in flight at once.
MaxReq == 2

\* The three <Route> paths: '/', '/create-role', '/role/:id'.
Routes ==
    {[page |-> "list", id |-> NoId], [page |-> "create", id |-> NoId]}
    \cup {[page |-> "detail", id |-> i] : i \in RoleIds}

HomeRoute == [page |-> "list", id |-> NoId]

\* A request that has not settled: the operation, the role id its caller
\* closed over, whether the component instance that issued it is still
\* mounted (live), and, for the requests of handleResumeUpload (the upload
\* and the fetchData it awaits), the file it was called with.
Req(op, id, live, upload, f) ==
    [op |-> op, id |-> id, live |-> live, upload |-> upload, file |-> f]

AddReq(bag, r) == bag (+) SetToBag({r})
DelReq(bag, r) == bag (-) SetToBag({r})
Pending == BagToSet(inflight)

\* Unmounting the page: none of its requests is cancelled, and each settles
\* later on a component instance that is gone.
Kill(bag) ==
    LET dead == {[r EXCEPT !.live = FALSE] : r \in BagToSet(bag)}
    IN  [d \in dead |-> CopiesIn(d, bag) + CopiesIn([d EXCEPT !.live = TRUE], bag)]

\* The requests a page issues from its mount effect.
MountRequests(target) ==
    IF target.page = "list"
    THEN SetToBag({Req("getRoles", NoId, TRUE, FALSE, NoFile)})
    ELSE IF target.page = "detail"
    THEN SetToBag({Req("getRoleDetails", target.id, TRUE, FALSE, NoFile)})
    ELSE EmptyBag

\* What fetch() may answer to a request of the application. GET /api/roles
\* answers a success with an array, never with the JSON null.
AppResponses(op) ==
    {resp \in Responses :
        ~(op = "getRoles" /\ resp.net /\ ResponseOk(resp) /\ resp.body.json = "null")}

(***************************************************************************)
(* Rendering                                                               *)
(***************************************************************************)
View(kind, text) == [kind |-> kind, text |-> text]

\* RoleList's return: the two early returns, then the page container.
ListView ==
    IF listLoading THEN View("loading", "")
    ELSE IF listError # NoError THEN View("error", listError)
    ELSE View("populated", "")

\* RoleDetails with a fixed text in place of the error's message.
DetailRenderFixedText(l, e, r) ==
    IF l THEN View("loading", "")
    ELSE IF e # NoError THEN View("error", "Something went wrong")
    ELSE IF r = "null" THEN View("notfound", "")
    ELSE View("populated", "")

\* RoleDetails's return for a loading flag, an error and a role.
DetailRender(l, e, r) ==
    IF l THEN View("loading", "")
    ELSE IF e # NoError THEN View("error", e)
    ELSE IF r = "null" THEN View("notfound", "")
    ELSE View("populated", "")

DetailView == DetailRender(loading, error, role)

\* <ResumeUploader> is in the tree only in the last return of RoleDetails.
UploaderMounted(l, e, r) == DetailRender(l, e, r).kind = "populated"

\* The uploader's useState(null) starts over whenever it is mounted again.
FileKept(l, e, r) == IF UploaderMounted(l, e, r) THEN file ELSE NoFile

\* The creation form's button without its disabled attribute.
SubmitNeverDisabled == TRUE

\* <button type="submit" disabled={loading}> of the creation form.
SubmitEnabled == ~formLoading

\* <button type="submit" disabled={isUploading || !file}> of the uploader.
UploadEnabled == ~isUploading /\ file # NoFile

(***************************************************************************)
(* Navigation                                                              *)
(***************************************************************************)
\* The router moves to target while the requests in bag are in flight. The
\* same location renders nothing anew; another id under /role/:id keeps the
\* RoleDetails instance and runs its effect (fetchData) again; another page
\* unmounts the old one and mounts the new one, whose mount effect runs.
RouterGoes(target, bag) ==
    /\ route' = target
    /\ IF target = route
       THEN /\ inflight' = bag
            /\ UNCHANGED <<listVars, formVars, detailVars>>
       ELSE IF target.page = route.page
       THEN /\ loading' = TRUE
            /\ error' = NoError
            /\ file' = NoFile
            /\ inflight' = AddReq(bag, Req("getRoleDetails", target.id, TRUE, FALSE, NoFile))
            /\ UNCHANGED <<role, results, isUploading, listVars, formVars>>
       ELSE /\ roles' = "[]" /\ listLoading' = TRUE /\ listError' = NoError
            /\ title' = "" /\ description' = "" /\ formLoading' = FALSE
            /\ formError' = NoError
            /\ role' = "null" /\ results' = "[]" /\ loading' = TRUE
            /\ error' = NoError /\ isUploading' = FALSE /\ file' = NoFile
            /\ inflight' = Kill(bag) (+) MountRequests(target)

\* The user follows a link, or moves through the session history.
Navigate(target) ==
    /\ target # route
    /\ target.page # "create" => BagCardinality(inflight) < MaxReq
    /\ RouterGoes(target, inflight)
    /\ UNCHANGED <<csvVars, apiVars>>

(***************************************************************************)
(* RoleList                                                                *)
(***************************************************************************)
\* fetchRoles with setLoading(false) at the end of its try block instead of
\* in a finally block.
GetRolesSettlesNoFinally(r, resp) ==
    LET res == ApiCall(r.op, resp)
    IN  /\ r \in Pending /\ r.op = "getRoles"
        /\ inflight' = DelReq(inflight, r)
        /\ IF r.live
           THEN /\ roles' = IF res.thrown THEN roles ELSE "roles"
                /\ listError' = IF res.thrown THEN res.message ELSE listError
                /\ listLoading' = IF res.thrown THEN listLoading ELSE FALSE
           ELSE UNCHANGED listVars
        /\ UNCHANGED <<route, formVars, detailVars, csvVars, apiVars>>

\* fetchRoles after `await getRoles()`.
GetRolesSettles(r, resp) ==
    LET res == ApiCall(r.op, resp)
    IN  /\ r \in Pending /\ r.op = "getRoles"
        /\ inflight' = DelReq(inflight, r)
        /\ IF r.live
           THEN /\ roles' = IF res.thrown THEN roles ELSE "roles"
                /\ listError' = IF res.thrown THEN res.message ELSE listError
                /\ listLoading' = FALSE
           ELSE UNCHANGED listVars
        /\ UNCHANGED <<route, formVars, detailVars, csvVars, apiVars>>

(***************************************************************************)
(* RoleCreationForm                                                        *)
(***************************************************************************)
SetTitle(t) ==
    /\ route.page = "create"
    /\ title' = t
    /\ UNCHANGED <<description, formLoading, formError, route, listVars,
                   detailVars, inflight, csvVars, apiVars>>

SetDescription(d) ==
    /\ route.page = "create"
    /\ description' = d
    /\ UNCHANGED <<title, formLoading, formError, route, listVars,
                   detailVars, inflight, csvVars, apiVars>>

\* handleSubmit up to `await createRole(...)`; both inputs are `required`.
Submit ==
    /\ route.page = "create"
    /\ title # "" /\ description # ""
    /\ SubmitEnabled
    /\ BagCardinality(inflight) < MaxReq
    /\ formLoading' = TRUE
    /\ formError' = NoError
    /\ inflight' = AddReq(inflight, Req("createRole", NoId, TRUE, FALSE, NoFile))
    /\ UNCHANGED <<title, description, route, listVars, detailVars, csvVars, apiVars>>

\* handleSubmit after `await createRole(...)`: navigate('/') on success, which
\* works from an unmounted instance too; setError and setLoading reach only
\* a mounted instance.
CreateRoleSettles(r, resp) ==
    LET res == ApiCall(r.op, resp)
    IN  /\ r \in Pending /\ r.op = "createRole"
        /\ IF res.thrown
           THEN /\ inflight' = DelReq(inflight, r)
                /\ formError' = IF r.live THEN res.message ELSE formError
                /\ formLoading' = IF r.live THEN FALSE ELSE formLoading
                /\ UNCHANGED <<title, description, route, listVars, detailVars>>
           ELSE RouterGoes(HomeRoute, DelReq(inflight, r))
        /\ UNCHANGED <<csvVars, apiVars>>

(***************************************************************************)
(* RoleDetails and ResumeUploader                                          *)
(***************************************************************************)
\* onChange of the file input, which is disabled while isUploading.
SelectFile(f) ==
    /\ route.page = "detail"
    /\ UploaderMounted(loading, error, role)
    /\ ~isUploading
    /\ file' = f
    /\ UNCHANGED <<role, results, loading, error, isUploading, route, listVars,
                   formVars, inflight, csvVars, apiVars>>

\* ResumeUploader.handleSubmit calls onUpload(file): handleResumeUpload up to
\* `await uploadResume(id, file)`.
UploadSubmit ==
    /\ route.page = "detail"
    /\ UploaderMounted(loading, error, role)
    /\ UploadEnabled
    /\ BagCardinality(inflight) < MaxReq
    /\ isUploading' = TRUE
    /\ error' = NoError
    /\ inflight' = AddReq(inflight, Req("uploadResume", route.id, TRUE, TRUE, file))
    /\ UNCHANGED <<role, results, loading, file, route, listVars, formVars,
                   csvVars, apiVars>>

\* handleResumeUpload after `await uploadResume(id, file)`: on success it
\* calls fetchData of the render it closed over (setLoading(true),
\* setError(null), getRoleDetails(id)); on failure setError, and finally
\* setIsUploading(false).
UploadSettles(r, resp) ==
    LET res == ApiCall(r.op, resp)
    IN  /\ r \in Pending /\ r.op = "uploadResume"
        /\ IF res.thrown
           THEN /\ inflight' = DelReq(inflight, r)
                /\ error' = IF r.live THEN res.message ELSE error
                /\ isUploading' = IF r.live THEN FALSE ELSE isUploading
                /\ file' = FileKept(loading, error', role)
                /\ UNCHANGED <<role, results, loading>>
           ELSE /\ inflight' = AddReq(DelReq(inflight, r),
                                      [r EXCEPT !.op = "getRoleDetails"])
                /\ loading' = IF r.live THEN TRUE ELSE loading
                /\ error' = IF r.live THEN NoError ELSE error
                /\ file' = FileKept(loading', error', role)
                /\ UNCHANGED <<role, results, isUploading>>
        /\ UNCHANGED <<route, listVars, formVars, csvVars, apiVars>>

\* fetchData after `await getRoleDetails(id)`: setRole and the next request,
\* or the catch and finally blocks; a fetchData awaited by
\* handleResumeUpload then lets it reach its own finally block.
DetailsSettles(r, resp) ==
    LET res == ApiCall(r.op, resp)
    IN  /\ r \in Pending /\ r.op = "getRoleDetails"
        /\ IF res.thrown
           THEN /\ inflight' = DelReq(inflight, r)
                /\ error' = IF r.live THEN res.message ELSE error
                /\ loading' = IF r.live THEN FALSE ELSE loading
                /\ isUploading' = IF r.live /\ r.upload THEN FALSE ELSE isUploading
                /\ role' = role
           ELSE /\ inflight' = AddReq(DelReq(inflight, r),
                                      [r EXCEPT !.op = "getRoleResults"])
                /\ role' = IF ~r.live THEN role
                           ELSE IF res.data = "null" THEN "null" ELSE r.id
                /\ UNCHANGED <<error, loading, isUploading>>
        /\ file' = FileKept(loading', error', role')
        /\ UNCHANGED <<results, route, listVars, formVars, csvVars, apiVars>>

\* fetchData after `await getRoleResults(id)`.
ResultsSettles(r, resp) ==
    LET res == ApiCall(r.op, resp)
    IN  /\ r \in Pending /\ r.op = "getRoleResults"
        /\ inflight' = DelReq(inflight, r)
        /\ results' = IF ~r.live \/ res.thrown THEN results
                      ELSE IF res.data = "null" THEN "null" ELSE r.id
        /\ error' = IF r.live /\ res.thrown THEN res.message ELSE error
        /\ loading' = IF r.live THEN FALSE ELSE loading
        /\ isUploading' = IF r.live /\ r.upload THEN FALSE ELSE isUploading
        /\ file' = FileKept(loading', error', role)
        /\ UNCHANGED <<role, route, listVars, formVars, csvVars, apiVars>>

(***************************************************************************)
(* The application                                                         *)
(***************************************************************************)
CsvIdle == csvResults = <<>> /\ csvRows = <<>> /\ csvPhase = "idle"
ApiIdle ==
    /\ apiOp = "getRoles"
    /\ apiResp = [net |-> FALSE, status |-> 200, body |-> [json |-> "invalid", detail |-> None]]
    /\ apiResult = NotCalled

\* The page at `start` has just been mounted and its mount effect has run.
AppLoadedAt(start) ==
    /\ route = start
    /\ roles = "[]" /\ listLoading = TRUE /\ listError = NoError
    /\ title = "" /\ description = "" /\ formLoading = FALSE /\ formError = NoError
    /\ role = "null" /\ results = "[]" /\ loading = TRUE /\ error = NoError
    /\ isUploading = FALSE /\ file = NoFile
    /\ inflight = MountRequests(start)

Init ==
    /\ \E start \in Routes : AppLoadedAt(start)
    /\ CsvIdle /\ ApiIdle

Settles(r, resp) ==
    \/ GetRolesSettles(r, resp)
    \/ CreateRoleSettles(r, resp)
    \/ DetailsSettles(r, resp)
    \/ ResultsSettles(r, resp)
    \/ UploadSettles(r, resp)

Next ==
    \/ \E target \in Routes : Navigate(target)
    \/ \E t \in Texts : SetTitle(t)
    \/ \E d \in Texts : SetDescription(d)
    \/ Submit
    \/ \E f \in Files : SelectFile(f)
    \/ UploadSubmit
    \/ \E r \in Pending : \E resp \in AppResponses(r.op) : GetRolesSettles(r, resp)
    \/ \E r \in Pending : \E resp \in AppResponses(r.op) : CreateRoleSettles(r, resp)
    \/ \E r \in Pending : \E resp \in AppResponses(r.op) : DetailsSettles(r, resp)
    \/ \E r \in Pending : \E resp \in AppResponses(r.op) : ResultsSettles(r, resp)
    \/ \E r \in Pending : \E resp \in AppResponses(r.op) : UploadSettles(r, resp)

Spec == Init /\ [][Next]_vars

(***************************************************************************)
(* The CSV export on its own: any results prop, then the button is clicked *)
(***************************************************************************)
\* Longest justification drawn, in characters.
MaxLen == 2
\* Most results in the table.
MaxResults == 1

Alphabet == {"a", ",", "\"", "\n"}
TextsUpTo(n) == UNION {[1..k -> Alphabet] : k \in 0..n}

EvidenceLists == {<<>>, << <<"e">> >>, << <<"e">>, <<"\"">> >>}
CompetencyMaps == {<<>>, << <<<<"k">>, 4>> >>, << <<<<"k">>, 4>>, <<<<"m">>, 0>> >>}

EvaluationDetails ==
    [pass_fail_status : {None, Some(<<"P", "a", "s", "s">>)},
     justification : {None} \cup {Some(t) : t \in TextsUpTo(MaxLen)},
     cited_evidence : {None} \cup {Some(e) : e \in EvidenceLists},
     competency_scores : {None} \cup {Some(c) : c \in CompetencyMaps}]

\* The Result of the specification's end-to-end example.
AliceResult ==
    [file_name |-> <<"a", "l", "i", "c", "e", ".", "p", "d", "f">>,
     score |-> 82,
     evaluation_details |-> Some(
        [pass_fail_status |-> Some(<<"P", "a", "s", "s">>),
         justification |-> Some(<<"S", "t", "r", "o", "n", "g", ",", " ", "c", "l",
                                  "e", "a", "r", " ", "c", "o", "m", "m", "u", "n",
                                  "i", "c", "a", "t", "o", "r">>),
         cited_evidence |-> Some(<< <<"5", " ", "y", "r", "s", " ", "m", "g", "m", "t">> >>),
         competency_scores |-> Some(<< << <<"L", "e", "a", "d", "e", "r", "s", "h",
                                           "i", "p">>, 4 >> >>)])]

SampleResults ==
    {AliceResult}
    \cup [file_name : {<<"f">>}, score : {0, 100},
          evaluation_details : {None} \cup {Some(d) : d \in EvaluationDetails}]

\* The button that calls downloadCsv is rendered only for a non-empty results.
ResultsProps == UNION {[1..n -> SampleResults] : n \in 1..MaxResults}

\* Every page of the application at rest, for the specifications that run one
\* function on its own.
AppIdle == AppLoadedAt([page |-> "create", id |-> NoId])

\* const rows = results.map(...) of downloadCsv.
DownloadCsv ==
    /\ csvPhase = "idle"
    /\ csvRows' = [i \in 1..Len(csvResults) |-> CsvRow(csvResults[i])]
    /\ csvPhase' = "done"
    /\ UNCHANGED <<csvResults, apiVars, appVars>>

InitCsv ==
    /\ csvResults \in ResultsProps
    /\ csvRows = <<>>
    /\ csvPhase = "idle"
    /\ ApiIdle /\ AppIdle

NextCsv == DownloadCsv

SpecCsv == InitCsv /\ [][NextCsv]_vars

(***************************************************************************)
(* One call of the API client on its own                                   *)
(***************************************************************************)
\* The awaited fetch() answers and the wrapper returns or throws.
ApiSettles ==
    /\ apiResult = Awaiting
    /\ apiResult' = ApiCall(apiOp, apiResp)
    /\ UNCHANGED <<apiOp, apiResp, csvVars, appVars>>

InitApi ==
    /\ apiOp \in Ops
    /\ apiResp \in Responses
    /\ apiResult = Awaiting
    /\ CsvIdle /\ AppIdle

NextApi == ApiSettles

SpecApi == InitApi /\ [][NextApi]_vars

(***************************************************************************)
(* A standard CSV reader, to read an exported row back                     *)
(***************************************************************************)
\* One character read: outside quotes a comma ends the field and a quote
\* opens the quoting; inside quotes a quote is held back ("q") until the next
\* character tells a doubled quote (one quote of the value) from the closing
\* one.
CsvStep(st, c) ==
    IF st.mode = "in"
    THEN IF c = "\"" THEN [st EXCEPT !.mode = "q"]
         ELSE [st EXCEPT !.cur = Append(@, c)]
    ELSE IF st.mode = "q" /\ c = "\""
    THEN [st EXCEPT !.mode = "in", !.cur = Append(@, c)]
    ELSE IF c = ","
    THEN [mode |-> "out", cur |-> <<>>, acc |-> Append(st.acc, st.cur)]
    ELSE IF c = "\"" THEN [st EXCEPT !.mode = "in"]
    ELSE [st EXCEPT !.mode = "out", !.cur = Append(@, c)]

RECURSIVE CsvRun(_, _, _, _)
\* The reader's state after the characters lo..hi of s, read in order.
CsvRun(s, lo, hi, st) ==
    IF lo > hi THEN st
    ELSE IF lo = hi THEN CsvStep(st, s[lo])
    ELSE LET mid == (lo + hi) \div 2
         IN  \* the second half is read from the value the first half leaves
             CHOOSE end \in {CsvRun(s, mid + 1, hi, half) :
                                half \in {CsvRun(s, lo, mid, st)}} : TRUE

\* The values of the fields of one row.
ReadCsvRow(s) ==
    LET end == CsvRun(s, 1, Len(s), [mode |-> "out", cur |-> <<>>, acc |-> <<>>])
    IN  Append(end.acc, end.cur)

(***************************************************************************)
(* Claims about the CSV export (checked under SpecCsv)                     *)
(***************************************************************************)
\* The raw text of each of the six fields of a Result's row.
RawFields(result) ==
    LET details == DetailsOf(result)
    IN  << result.file_name,
           NumToStr(result.score),
           PassFailText(details),
           JustificationText(details),
           CitedEvidenceText(details),
           CompetencyScoresText(details) >>

\* "alice.pdf","82","Pass","Strong, clear communicator","5 yrs mgmt","Leadership: 4"
AliceRow ==
    <<"\"", "a", "l", "i", "c", "e", ".", "p", "d", "f", "\"", ",",
      "\"", "8", "2", "\"", ",",
      "\"", "P", "a", "s", "s", "\"", ",",
      "\"", "S", "t", "r", "o", "n", "g", ",", " ", "c", "l", "e", "a", "r", " ",
            "c", "o", "m", "m", "u", "n", "i", "c", "a", "t", "o", "r", "\"", ",",
      "\"", "5", " ", "y", "r", "s", " ", "m", "g", "m", "t", "\"", ",",
      "\"", "L", "e", "a", "d", "e", "r", "s", "h", "i", "p", ":", " ", "4", "\"">>

\* C1: every exported row is its six raw field texts, each wrapped in one
\* pair of double quotes with the inner double quotes doubled and nothing
\* else added, joined with commas; the example Result exports as AliceRow.
C1_RowIsQuotedRawFields ==
    csvPhase = "done" =>
        \A i \in 1..Len(csvResults) :
            /\ LET raw == RawFields(csvResults[i])
               IN  csvRows[i] = Join([k \in 1..6 |-> CsvQuote(raw[k])], <<",">>)
            /\ csvResults[i] = AliceResult => csvRows[i] = AliceRow

HasQuoteOrComma(s) == \E k \in 1..Len(s) : s[k] \in {"\"", ","}

\* C2: a justification holding a double quote or a comma is read back from
\* the exported row by a standard CSV reader exactly as it was.
C2_JustificationRoundTrip ==
    csvPhase = "done" =>
        \A i \in 1..Len(csvResults) :
            LET justification == JustificationText(DetailsOf(csvResults[i]))
            IN  HasQuoteOrComma(justification) =>
                    ReadCsvRow(csvRows[i])[4] = justification

\* C3: for a Result without evaluation_details the export produces its row,
\* whose pass/fail field reads N/A and whose justification, cited-evidence
\* and competency-scores fields read as the empty string.
C3_MissingDetailsDefaults ==
    csvPhase = "done" =>
        \A i \in 1..Len(csvResults) :
            ~IsSome(csvResults[i].evaluation_details) =>
                LET read == ReadCsvRow(csvRows[i])
                IN  /\ Len(read) = 6
                    /\ read[3] = NotAvailable
                    /\ read[4] = <<>> /\ read[5] = <<>> /\ read[6] = <<>>

(***************************************************************************)
(* Claims about the API client (checked under SpecApi)                     *)
(***************************************************************************)
\* C4: each of the five operations, answered with a non-success status and
\* a body that is no JSON, throws an error whose message is the operation's
\* own default message.
C4_UnparsableBodyGivesDefault ==
    (/\ apiResult \notin {NotCalled, Awaiting}
     /\ apiResp.net /\ ~ResponseOk(apiResp)
     /\ apiResp.body.json = "invalid")
        => /\ apiResult.thrown
           /\ apiResult.message = DefaultMessage(apiOp)

(***************************************************************************)
(* Claims about the pages (checked under Spec)                             *)
(***************************************************************************)
\* A non-success response whose body is a JSON object carrying a detail.
FailsWithDetail(resp) ==
    /\ resp.net /\ ~ResponseOk(resp)
    /\ resp.body.json = "object" /\ IsSome(resp.body.detail)

\* C5, as claimed: a create-role call failing with any detail string makes
\* that string the error state of the form that issued it, leaves the route
\* where it is and leaves the title and the description as they are.
C5_AnyDetailShown ==
    [][\A r \in Pending : \A resp \in AppResponses("createRole") :
          (r.op = "createRole" /\ FailsWithDetail(resp) /\ CreateRoleSettles(r, resp))
            => /\ route' = route
               /\ r.live => /\ formError' = Get(resp.body.detail)
                            /\ title' = title /\ description' = description]_vars

\* C5, amended: a create-role call failing with a non-empty detail string
\* makes that string the error state of the form that issued it, leaves the
\* route where it is and leaves the title and the description as they are.
C5_NonEmptyDetailShown ==
    [][\A r \in Pending : \A resp \in AppResponses("createRole") :
          (/\ r.op = "createRole" /\ FailsWithDetail(resp)
           /\ Get(resp.body.detail) # ""
           /\ CreateRoleSettles(r, resp))
            => /\ route' = route
               /\ r.live => /\ formError' = Get(resp.body.detail)
                            /\ title' = title /\ description' = description]_vars

\* The form shows the server's detail and still holds what the user typed.
C5_Witness ==
    /\ route.page = "create"
    /\ formError = "title required" /\ ~formLoading
    /\ title # "" /\ description # ""

\* C6: a response that settles after the page that issued its request was
\* unmounted changes no view state and does not change the route.
C6_LateResponseDiscarded ==
    [][\A r \in Pending : \A resp \in AppResponses(r.op) :
          (~r.live /\ Settles(r, resp))
            => UNCHANGED <<route, listVars, formVars, detailVars>>]_vars

\* C7: when the refresh that follows a successful upload has completed and
\* the uploader is on the page again, it still holds the file that was
\* uploaded.
C7_FileKeptAfterUpload ==
    [][\A r \in Pending : \A resp \in AppResponses("getRoleResults") :
          (/\ r.op = "getRoleResults" /\ r.live /\ r.upload
           /\ ~ApiCall(r.op, resp).thrown
           /\ ResultsSettles(r, resp)
           /\ UploaderMounted(loading', error', role'))
            => file' = r.file]_vars

\* The create-role request of the mounted form.
LiveCreate == Req("createRole", NoId, TRUE, FALSE, NoFile)

\* C8: the mounted creation form never has more than one create-role
\* request in flight, and its submit button is disabled exactly while that
\* request is in flight.
C8_AtMostOneCreateInFlight ==
    route.page = "create" =>
        /\ CopiesIn(LiveCreate, inflight) <= 1
        /\ ~SubmitEnabled <=> CopiesIn(LiveCreate, inflight) = 1

\* A request is in flight and the form holds a title and a description, so
\* only the disabled button keeps the user from submitting again.
C8_Witness ==
    /\ route.page = "create"
    /\ CopiesIn(LiveCreate, inflight) = 1 /\ formLoading
    /\ title # "" /\ description # ""

\* The messages of the errors the given operations can throw.
ThrownMessages(ops) ==
    {c.message : c \in {x \in {ApiCall(op, resp) : op \in ops, resp \in Responses} :
                            x.thrown}}

ListOps == {"getRoles"}
DetailOps == {"getRoleDetails", "getRoleResults", "uploadResume"}

Issued(q) == CopiesIn(q, inflight') > CopiesIn(q, inflight)

\* C10: the detail view requests the role details of the role id in the URL
\* on mount and whenever that id changes, requests the results of the same
\* id once the details have arrived, requests the details of the current
\* role id again after a successful upload, and requests nothing after a
\* failed upload.
C10_FetchSequenceTriggers ==
    [][/\ \A target \in Routes :
            (target.page = "detail" /\ Navigate(target))
              => Issued(Req("getRoleDetails", target.id, TRUE, FALSE, NoFile))
       /\ \A r \in Pending : \A resp \in AppResponses("getRoleDetails") :
            (/\ r.op = "getRoleDetails" /\ r.live
             /\ ~ApiCall(r.op, resp).thrown
             /\ DetailsSettles(r, resp))
              => Issued([r EXCEPT !.op = "getRoleResults"])
       /\ \A r \in Pending : \A resp \in AppResponses("uploadResume") :
            (r.op = "uploadResume" /\ r.live /\ UploadSettles(r, resp))
              => IF ApiCall(r.op, resp).thrown
                 THEN inflight' = DelReq(inflight, r)
                 ELSE Issued(Req("getRoleDetails", route'.id, TRUE, TRUE, r.file))]_vars

\* No request of the mounted page is in flight.
Quiet == \A r \in Pending : ~r.live

\* C11: in the detail view, whenever no request is in flight and no error is
\* set, the role and the results held are those fetched for the role id in
\* the URL (a null answer holds no id), also after responses for an earlier
\* id arrived last.
C11_ViewMatchesUrl ==
    (route.page = "detail" /\ Quiet /\ error = NoError)
        => /\ role \in {route.id, "null"}
           /\ results \in {route.id, "null"}

(***************************************************************************)
(* The application when every request that was issued settles              *)
(***************************************************************************)
\* Every request a page can have in flight.
ReqShapes ==
    {Req(op, NoId, live, FALSE, NoFile) :
        op \in {"getRoles", "createRole"}, live \in BOOLEAN}
    \cup {Req(op, i, live, FALSE, NoFile) :
        op \in {"getRoleDetails", "getRoleResults"}, i \in RoleIds, live \in BOOLEAN}
    \cup {Req(op, i, live, TRUE, f) :
        op \in {"getRoleDetails", "getRoleResults", "uploadResume"},
        i \in RoleIds, live \in BOOLEAN, f \in Files}

\* fetch() answers every request of a mounted page sooner or later, and the
\* alert() a handler shows on success returns. A request whose page is gone
\* sets no flag, so nothing is assumed of it; what the user does, and when,
\* is left open.
RequestsSettle ==
    \A r \in {x \in ReqShapes : x.live} :
        WF_vars(r \in Pending /\ \E resp \in AppResponses(r.op) : Settles(r, resp))

FairSpec == Spec /\ RequestsSettle

ListBusy == route.page = "list" /\ listLoading
DetailBusy == route.page = "detail" /\ loading
FormBusy == route.page = "create" /\ formLoading
UploadBusy == route.page = "detail" /\ isUploading

\* C12: when every issued request settles, each busy flag that is set is
\* cleared later: the list view's and the detail view's loading flag, the
\* creation form's loading flag and the detail view's isUploading flag.
C12_BusyFlagsCleared ==
    /\ ListBusy ~> ~ListBusy
    /\ DetailBusy ~> ~DetailBusy
    /\ FormBusy ~> ~FormBusy
    /\ UploadBusy ~> ~UploadBusy

\* The detail view after an upload that failed without a detail: both of its
\* busy flags are clear again.
C12_Witness ==
    /\ route.page = "detail"
    /\ error = DefaultMessage("uploadResume")
    /\ ~loading /\ ~isUploading

====
